---------------------------- MODULE Spec2Model ----------------------------
(***************************************************************************)
(* Model of the crop-disease prediction endpoint                           *)
(* (services/ML-service/app/api/predict.py, model/preprocess.py,           *)
(* model/model_loader.py).                                                 *)
(*                                                                         *)
(* Byte strings are held run-length encoded: a byte string is a sequence   *)
(* of runs <<byte, count>> in normal form (count > 0, adjacent runs hold   *)
(* different bytes).  The encoding is exact, so 5 MiB uploads keep their   *)
(* real length and MAX_FILE_SIZE and chunk_size keep their real values.    *)
(***************************************************************************)
EXTENDS Integers, Sequences, FiniteSets

(***************************************************************************)
(* Bounds of the model.                                                    *)
(***************************************************************************)
\* Requests that may be in flight together in the concurrent specification.
NumRequests == 2
\* Reads per request that may return fewer bytes than were asked for.
MaxShortReads == 1
\* Fixed-point unit of a probability: p is held as the integer p * Scale.
Scale == 100000

(***************************************************************************)
(* Python bytes, run-length encoded.                                       *)
(***************************************************************************)
RECURSIVE BLen(_)
BLen(b) == IF b = <<>> THEN 0 ELSE Head(b)[2] + BLen(Tail(b))

BConcat(a, b) ==
    IF a = <<>> THEN b
    ELSE IF b = <<>> THEN a
    ELSE IF a[Len(a)][1] = b[1][1]
         THEN SubSeq(a, 1, Len(a) - 1)
              \o << <<b[1][1], a[Len(a)][2] + b[1][2]>> >>
              \o Tail(b)
         ELSE a \o b

RECURSIVE BTake(_, _)
BTake(b, n) ==
    IF n <= 0 \/ b = <<>> THEN <<>>
    ELSE IF Head(b)[2] >= n THEN << <<Head(b)[1], n>> >>
    ELSE <<Head(b)>> \o BTake(Tail(b), n - Head(b)[2])

RECURSIVE BDrop(_, _)
BDrop(b, n) ==
    IF n <= 0 \/ b = <<>> THEN b
    ELSE IF Head(b)[2] > n THEN << <<Head(b)[1], Head(b)[2] - n>> >> \o Tail(b)
    ELSE BDrop(Tail(b), n - Head(b)[2])

\* b[i - 1] of Python (i is 1-based here), for 1 <= i <= BLen(b)
RECURSIVE ByteAt(_, _)
ByteAt(b, i) ==
    IF i <= Head(b)[2] THEN Head(b)[1] ELSE ByteAt(Tail(b), i - Head(b)[2])

\* bytes literal: a plain sequence of byte values to its run-length form
RECURSIVE FromSeq(_)
FromSeq(s) ==
    IF s = <<>> THEN <<>>
    ELSE BConcat(FromSeq(SubSeq(s, 1, Len(s) - 1)), << <<s[Len(s)], 1>> >>)

\* bytes.startswith(prefix), prefix a plain sequence of byte values
startswith(content, prefix) ==
    /\ BLen(content) >= Len(prefix)
    /\ \A i \in 1..Len(prefix) : ByteAt(content, i) = prefix[i]

\* str.startswith(prefix) on strings held as sequences of characters
str_startswith(s, prefix) ==
    /\ Len(s) >= Len(prefix)
    /\ SubSeq(s, 1, Len(prefix)) = prefix

RECURSIVE BConcatAll(_)
BConcatAll(cs) ==
    IF cs = <<>> THEN <<>>
    ELSE BConcat(BConcatAll(SubSeq(cs, 1, Len(cs) - 1)), cs[Len(cs)])

(***************************************************************************)
(* Constants of predict.py and model_loader.py.                            *)
(***************************************************************************)
MAX_FILE_SIZE == 5 * 1024 * 1024
chunk_size == 1024 * 1024
JPEG_MAGIC == <<255, 216, 255>>
PNG_MAGIC == <<137, 80, 78, 71, 13, 10, 26, 10>>
WEBP_MAGIC == <<82, 73, 70, 70>>
NUM_CLASSES == 17
\* is_valid_image: shortest buffer that is looked at
MinImageLen == 12

\* app/model/labels.py is not among the sources: the vocabulary is the spec's
\* "fixed label vocabulary of 17 known class names", in fixed order.
LABELS ==
    << "class_00", "class_01", "class_02", "class_03", "class_04", "class_05",
       "class_06", "class_07", "class_08", "class_09", "class_10", "class_11",
       "class_12", "class_13", "class_14", "class_15", "class_16" >>

(***************************************************************************)
(* Values.                                                                 *)
(***************************************************************************)
\* file.content_type: None, or a str held as a sequence of characters
None == [present |-> FALSE, value |-> <<>>]
Str(s) == [present |-> TRUE, value |-> s]
\* truth value of an Optional[str]: None and "" are falsy
Truthy(ct) == ct.present /\ ct.value # <<>>

ImagePrefix == <<"i", "m", "a", "g", "e", "/">>

\* HTTPException(status_code, detail); detail is a sequence of string pieces
HTTPException(status_code, detail) ==
    [type |-> "HTTPException", status |-> status_code, detail |-> detail]

\* f"{x:.1f}" of x = num / den, for 0 <= x < 10 (round half to even)
DigitStr == <<"0", "1", "2", "3", "4", "5", "6", "7", "8", "9">>
Format1f(num, den) ==
    LET q == (num * 10) \div den
        rem == (num * 10) % den
        tenths == IF 2 * rem > den \/ (2 * rem = den /\ q % 2 = 1)
                  THEN q + 1 ELSE q
    IN  <<DigitStr[(tenths \div 10) + 1], ".", DigitStr[(tenths % 10) + 1]>>

TooLargeDetail ==
    <<"File too large. Maximum size is ">>
        \o Format1f(MAX_FILE_SIZE, 1024 * 1024) \o <<"MB">>
InvalidImageDetail ==
    <<"Invalid image file. Only JPEG, PNG, and WebP formats are supported.">>
TypeMismatchDetail(content_type) ==
    <<"Invalid file type. Expected image, got ">> \o content_type.value
GenericDetail ==
    <<"An error occurred while processing the image. Please try again with a different image.">>

(***************************************************************************)
(* is_valid_image (predict.py 20-36).                                      *)
(***************************************************************************)
\* variant: the length test of line 25 left out
is_valid_image_NoLengthCheck(content) ==
    \/ startswith(content, JPEG_MAGIC)
    \/ startswith(content, PNG_MAGIC)
    \/ startswith(content, WEBP_MAGIC)

\* variant: the PNG test of lines 31-32 left out
is_valid_image_NoPng(content) ==
    IF BLen(content) < MinImageLen THEN FALSE
    ELSE IF startswith(content, JPEG_MAGIC) THEN TRUE
    ELSE IF startswith(content, WEBP_MAGIC) THEN TRUE
    ELSE FALSE

is_valid_image(content) ==
    IF BLen(content) < MinImageLen THEN FALSE
    ELSE IF startswith(content, JPEG_MAGIC) THEN TRUE
    ELSE IF startswith(content, PNG_MAGIC) THEN TRUE
    ELSE IF startswith(content, WEBP_MAGIC) THEN TRUE
    ELSE FALSE

(***************************************************************************)
(* The content-type test of predict.py 81.                                 *)
(***************************************************************************)
\* variant: the test without its "file.content_type and" guard
ContentTypeRejected_NoTruthTest(content_type) ==
    ~str_startswith(content_type.value, ImagePrefix)

ContentTypeRejected(content_type) ==
    Truthy(content_type) /\ ~str_startswith(content_type.value, ImagePrefix)

(***************************************************************************)
(* The except clauses of predict.py 102-110.                               *)
(***************************************************************************)
\* variant: "except Exception" placed before "except HTTPException"
ExceptHandler_CatchAllFirst(exc) ==
    [status |-> 500, detail |-> GenericDetail]

\* variant: the 500 detail built from the caught exception
ExceptHandler_LeaksCause(exc) ==
    IF exc.type = "HTTPException"
    THEN [status |-> exc.status, detail |-> exc.detail]
    ELSE [status |-> 500, detail |-> <<"An error occurred: ", exc.type>>]

\* the response FastAPI sends for the HTTPException that leaves the handler
ExceptHandler(exc) ==
    IF exc.type = "HTTPException"
    THEN [status |-> exc.status, detail |-> exc.detail]
    ELSE [status |-> 500, detail |-> GenericDetail]

(***************************************************************************)
(* preprocess_image (preprocess.py 15-18).  What PIL makes of the bytes is *)
(* part of the request's input: upload.pil is either the name of the       *)
(* exception Image.open/convert raises on them or the decoded picture.     *)
(***************************************************************************)
Images == {"leaf_a", "leaf_b", "leaf_c"}
DecodeErrors == {"UnidentifiedImageError", "OSError"}
TensorShape == <<1, 3, 300, 300>>

preprocess_image(image_bytes, pil) ==
    IF pil \in DecodeErrors
    THEN [raised |-> TRUE, exc |-> [type |-> pil]]
    ELSE [raised |-> FALSE,
          tensor |-> [shape |-> TensorShape, image |-> pil]]

(***************************************************************************)
(* The classifier (model_loader.py).  A logit is held as the integer       *)
(* exp(logit), so softmax is exact division by the sum.                    *)
(***************************************************************************)
load_model ==
    [img \in Images |->
        CASE img = "leaf_a" -> [c \in 1..NUM_CLASSES |-> IF c = 1 THEN 1000 ELSE 1]
          [] img = "leaf_b" -> [c \in 1..NUM_CLASSES |-> 1]
          [] img = "leaf_c" -> [c \in 1..NUM_CLASSES |->
                                    IF c = NUM_CLASSES THEN 1000 ELSE 0]]

\* model(input_tensor): forward is "ok" or the exception the pass raises
Forward(mdl, input_tensor, forward) ==
    IF forward # "ok"
    THEN [raised |-> TRUE, exc |-> [type |-> forward]]
    ELSE [raised |-> FALSE, outputs |-> mdl[input_tensor.image]]

RECURSIVE SumTo(_, _)
SumTo(v, n) == IF n = 0 THEN 0 ELSE v[n] + SumTo(v, n - 1)

\* torch.softmax(outputs, dim=1), as fixed-point probabilities
softmax(outputs) ==
    [c \in DOMAIN outputs |-> (outputs[c] * Scale) \div SumTo(outputs, Len(outputs))]

\* probabilities.max().item()
TensorMax(v) == CHOOSE m \in {v[c] : c \in DOMAIN v} : \A c \in DOMAIN v : v[c] <= m
\* probabilities.argmax().item(): 0-based index of the first maximum
TensorArgmax(v) ==
    (CHOOSE c \in DOMAIN v :
        /\ v[c] = TensorMax(v)
        /\ \A d \in DOMAIN v : v[d] = TensorMax(v) => c <= d) - 1

\* variant: the percentage scaled by 100 a second time
RoundPercent_ScaledTwice(confidence) ==
    ((confidence * 10000) \div Scale) * 100

\* round(confidence * 100, 2), in hundredths of a percent (round half to even)
RoundPercent(confidence) ==
    LET q == (confidence * 10000) \div Scale
        rem == (confidence * 10000) % Scale
    IN  IF 2 * rem > Scale \/ (2 * rem = Scale /\ q % 2 = 1) THEN q + 1 ELSE q

(***************************************************************************)
(* State.  One entry per request; model is the module-level classifier.    *)
(***************************************************************************)
VARIABLES
    model,          \* model_loader.model, loaded once at import
    pc,             \* "idle" (not yet received), "reading", "done"
    upload,         \* the request's UploadFile and what PIL/torch make of it
    pos,            \* position of the UploadFile's file object
    file_content,   \* the handler's BytesIO buffer
    total_size,     \* the handler's running byte total
    chunks,         \* history: the non-empty chunks file.read returned, in order
    short_reads,    \* history: how many of them were short reads
    stages,         \* history: the stages of the pipeline that ran, in order
    responses,      \* history: the responses sent for the request, in order
    overlapped      \* history: requests that resumed while another was mid-read

vars == <<model, pc, upload, pos, file_content, total_size, chunks,
          short_reads, stages, responses, overlapped>>

Requests == 1..NumRequests
\* the request served alone in the sequential specification
Solo == {1}

(***************************************************************************)
(* Uploads the requests are drawn from: a head followed by zero bytes up   *)
(* to a total length (the head is cut when the length is shorter).         *)
(***************************************************************************)
Zeros(n) == IF n = 0 THEN <<>> ELSE << <<0, n>> >>
MkData(head, n) == BTake(BConcat(FromSeq(head), Zeros(n)), n)

JpegHead == JPEG_MAGIC \o <<224, 0, 16, 74, 70, 73, 70, 0>>
PngHead == PNG_MAGIC \o <<0, 0, 0, 13, 73, 72, 68, 82>>
WebpHead == WEBP_MAGIC \o <<36, 0, 0, 0, 87, 69, 66, 80>>
WaveHead == WEBP_MAGIC \o <<36, 0, 0, 0, 87, 65, 86, 69>>
NearPngHead == <<137, 80, 78, 71, 13, 10, 26, 11>>
GifHead == <<71, 73, 70, 56, 57, 97>>
Heads == {JpegHead, PngHead, WebpHead, WaveHead, NearPngHead, GifHead, <<>>}

Lengths == {0, 3, 11, 12, 13, chunk_size + 1, MAX_FILE_SIZE,
            MAX_FILE_SIZE + 1, 6 * chunk_size + 5}

ContentTypes ==
    { None, Str(<<>>), Str(ImagePrefix),
      Str(ImagePrefix \o <<"p", "n", "g">>),
      Str(<<"i", "m", "a", "g">>),
      Str(<<"a", "p", "p", "l", "i", "c", "a", "t", "i", "o", "n", "/", "p", "d", "f">>) }

\* PIL identifies a file by its first bytes (the plugins' _accept tests); bytes
\* it does not identify never decode.  A RIFF container is WEBP only with the
\* "WEBP" tag at offset 8.
PilAccepts(data) ==
    \/ startswith(data, JPEG_MAGIC)
    \/ startswith(data, PNG_MAGIC)
    \/ startswith(data, GifHead)
    \/ /\ startswith(data, WEBP_MAGIC)
       /\ startswith(BDrop(data, 8), <<87, 69, 66, 80>>)

Uploads ==
    { u \in [ data : {MkData(h, n) : h \in Heads, n \in Lengths},
              content_type : ContentTypes,
              pil : DecodeErrors \cup Images,
              forward : {"ok", "RuntimeError"} ] :
        /\ u.pil \in Images => PilAccepts(u.data)
        /\ u.pil \in DecodeErrors => u.forward = "ok"
        /\ u.forward = "RuntimeError" => u.pil = "leaf_a" }

NoUpload == [data |-> <<>>, content_type |-> None, pil |-> "leaf_a", forward |-> "ok"]

(***************************************************************************)
(* The read loop (predict.py 53-67).                                       *)
(***************************************************************************)
\* await file.read(size): up to size bytes from the file position
FileRead(data, position, size) == BTake(BDrop(data, position), size)

\* sum of the running totals of all requests
RECURSIVE SumTotals(_)
SumTotals(n) == IF n = 0 THEN 0 ELSE total_size[n] + SumTotals(n - 1)

\* variant: total_size kept as one module-level counter
RunningTotal_SharedCounter(r, chunk) == SumTotals(NumRequests) + BLen(chunk)

\* total_size += len(chunk)
RunningTotal(r, chunk) == total_size[r] + BLen(chunk)

\* variant: >= in place of >
SizeExceeded_AtLimit(total) == total >= MAX_FILE_SIZE

\* total_size > MAX_FILE_SIZE
SizeExceeded(total) == total > MAX_FILE_SIZE

\* variant: file_content.write(chunk) placed before the size test
LoopBody_WriteBeforeCheck(buffer, total, chunk) ==
    IF SizeExceeded(total)
    THEN [raised |-> TRUE, exc |-> HTTPException(413, TooLargeDetail),
          file_content |-> BConcat(buffer, chunk)]
    ELSE [raised |-> FALSE, file_content |-> BConcat(buffer, chunk)]

\* the loop body after total_size += len(chunk): raise 413 or write the chunk
LoopBody(buffer, total, chunk) ==
    IF SizeExceeded(total)
    THEN [raised |-> TRUE, exc |-> HTTPException(413, TooLargeDetail),
          file_content |-> buffer]
    ELSE [raised |-> FALSE, file_content |-> BConcat(buffer, chunk)]

(***************************************************************************)
(* After the loop (predict.py 69-100), inside the try.  The result is the  *)
(* response and the stages that ran.                                       *)
(***************************************************************************)
AfterLoop(image_bytes, u, mdl) ==
    IF ~is_valid_image(image_bytes)
    THEN [stages |-> <<"signature">>,
          response |-> ExceptHandler(HTTPException(400, InvalidImageDetail))]
    ELSE IF ContentTypeRejected(u.content_type)
    THEN [stages |-> <<"signature", "content_type">>,
          response |-> ExceptHandler(
              HTTPException(400, TypeMismatchDetail(u.content_type)))]
    ELSE
    LET pre == preprocess_image(image_bytes, u.pil) IN
    IF pre.raised
    THEN [stages |-> <<"signature", "content_type", "preprocess">>,
          response |-> ExceptHandler(pre.exc)]
    ELSE
    LET fwd == Forward(mdl, pre.tensor, u.forward) IN
    IF fwd.raised
    THEN [stages |-> <<"signature", "content_type", "preprocess", "inference">>,
          response |-> ExceptHandler(fwd.exc)]
    ELSE
    LET probabilities == softmax(fwd.outputs)
        pred_index == TensorArgmax(probabilities)
        confidence == TensorMax(probabilities)
    IN  IF pred_index + 1 \notin DOMAIN LABELS
        THEN [stages |-> <<"signature", "content_type", "preprocess", "inference">>,
              response |-> ExceptHandler([type |-> "IndexError"])]
        ELSE [stages |-> <<"signature", "content_type", "preprocess", "inference">>,
              response |-> [status |-> 200,
                            body |-> [prediction |-> LABELS[pred_index + 1],
                                      confidence |-> RoundPercent(confidence)]]]

(***************************************************************************)
(* Actions: the handler runs from one suspension point (await file.read)   *)
(* to the next without interleaving.                                       *)
(***************************************************************************)
Init ==
    /\ model = load_model
    /\ pc = [r \in Requests |-> "idle"]
    /\ upload = [r \in Requests |-> NoUpload]
    /\ pos = [r \in Requests |-> 0]
    /\ file_content = [r \in Requests |-> <<>>]
    /\ total_size = [r \in Requests |-> 0]
    /\ chunks = [r \in Requests |-> <<>>]
    /\ short_reads = [r \in Requests |-> 0]
    /\ stages = [r \in Requests |-> <<>>]
    /\ responses = [r \in Requests |-> <<>>]
    /\ overlapped = {}

\* the request is received; the handler runs up to its first await
Arrive(r, u) ==
    /\ pc[r] = "idle"
    /\ pc' = [pc EXCEPT ![r] = "reading"]
    /\ upload' = [upload EXCEPT ![r] = u]
    /\ pos' = [pos EXCEPT ![r] = 0]
    /\ file_content' = [file_content EXCEPT ![r] = <<>>]
    /\ total_size' = [total_size EXCEPT ![r] = 0]
    /\ stages' = [stages EXCEPT ![r] = <<"size">>]
    /\ UNCHANGED <<model, chunks, short_reads, responses, overlapped>>

\* history: r resumes while another request holds bytes it has read so far
Resume(r) ==
    overlapped' =
        IF \E o \in Requests \ {r} : pc[o] = "reading" /\ total_size[o] > 0
        THEN overlapped \cup {r} ELSE overlapped

Remaining(r) == BLen(upload[r].data) - pos[r]
FullRead(r) == IF Remaining(r) < chunk_size THEN Remaining(r) ELSE chunk_size
ShortReads == {5, chunk_size - 1}
ReadSizes(r) ==
    {FullRead(r)} \cup
    (IF short_reads[r] < MaxShortReads
     THEN {k \in ShortReads : k < FullRead(r)} ELSE {})

\* file.read(chunk_size) can return n bytes: "if not chunk" is false
CanRead(r, n) == n >= 1 /\ n <= FullRead(r)
\* file.read(chunk_size) returns b"": "if not chunk" is true
AtEOF(r) == FileRead(upload[r].data, pos[r], chunk_size) = <<>>

\* file.read returns a non-empty chunk of n bytes; the loop body runs
ReadChunk(r, n) ==
    /\ pc[r] = "reading"
    /\ CanRead(r, n)
    /\ LET chunk == FileRead(upload[r].data, pos[r], n)
           total == RunningTotal(r, chunk)
           body == LoopBody(file_content[r], total, chunk)
       IN  /\ pos' = [pos EXCEPT ![r] = pos[r] + BLen(chunk)]
           /\ total_size' = [total_size EXCEPT ![r] = total]
           /\ chunks' = [chunks EXCEPT ![r] = Append(chunks[r], chunk)]
           /\ short_reads' = [short_reads EXCEPT ![r] =
                                 IF n < FullRead(r) THEN @ + 1 ELSE @]
           /\ file_content' = [file_content EXCEPT ![r] = body.file_content]
           /\ IF body.raised
              THEN /\ responses' = [responses EXCEPT ![r] =
                                       Append(@, ExceptHandler(body.exc))]
                   /\ pc' = [pc EXCEPT ![r] = "done"]
              ELSE UNCHANGED <<responses, pc>>
    /\ Resume(r)
    /\ UNCHANGED <<model, upload, stages>>

\* file.read returns b"": the loop ends and the rest of the handler runs
ReadEOF(r) ==
    /\ pc[r] = "reading"
    /\ AtEOF(r)
    /\ LET image_bytes == file_content[r]
           result == AfterLoop(image_bytes, upload[r], model)
       IN  /\ stages' = [stages EXCEPT ![r] = @ \o result.stages]
           /\ responses' = [responses EXCEPT ![r] = Append(@, result.response)]
    /\ pc' = [pc EXCEPT ![r] = "done"]
    /\ Resume(r)
    /\ UNCHANGED <<model, upload, pos, file_content, total_size, chunks,
                   short_reads>>

\* one request at a time, over every upload and every split into chunks
Next ==
    \E r \in Solo :
        \/ \E u \in Uploads : Arrive(r, u)
        \/ \E n \in ReadSizes(r) : ReadChunk(r, n)
        \/ ReadEOF(r)

Spec == Init /\ [][Next]_vars

(***************************************************************************)
(* Concurrent requests: the event loop resumes any request that waits on   *)
(* file.read; reads return full chunks, as Starlette's UploadFile does.    *)
(***************************************************************************)
ConcUploads ==
    { [data |-> MkData(PngHead, 3 * chunk_size),
       content_type |-> Str(ImagePrefix \o <<"p", "n", "g">>),
       pil |-> "leaf_a", forward |-> "ok"],
      [data |-> MkData(JpegHead, MAX_FILE_SIZE + 1),
       content_type |-> None, pil |-> "leaf_b", forward |-> "ok"],
      [data |-> MkData(GifHead, 13),
       content_type |-> Str(ImagePrefix), pil |-> "leaf_a", forward |-> "ok"],
      [data |-> MkData(PngHead, 13),
       content_type |-> Str(<<"i", "m", "a", "g">>),
       pil |-> "leaf_b", forward |-> "ok"],
      [data |-> MkData(PngHead, 12),
       content_type |-> None, pil |-> "OSError", forward |-> "ok"],
      [data |-> MkData(WaveHead, 13),
       content_type |-> Str(<<>>),
       pil |-> "UnidentifiedImageError", forward |-> "ok"],
      [data |-> MkData(JpegHead, 13),
       content_type |-> Str(ImagePrefix),
       pil |-> "leaf_a", forward |-> "RuntimeError"],
      [data |-> MkData(WebpHead, chunk_size + 1),
       content_type |-> None, pil |-> "leaf_c", forward |-> "ok"] }

NextConc ==
    \E r \in Requests :
        \/ \E u \in ConcUploads : Arrive(r, u)
        \/ ReadChunk(r, FullRead(r))
        \/ ReadEOF(r)

SpecConc == Init /\ [][NextConc]_vars

(***************************************************************************)
(* predict_disease run alone: the whole handler with no other request      *)
(* between its reads.                                                      *)
(***************************************************************************)
RECURSIVE ReadLoopAlone(_, _, _, _)
ReadLoopAlone(data, position, total, buffer) ==
    LET chunk == FileRead(data, position, chunk_size) IN
    IF chunk = <<>>
    THEN [raised |-> FALSE, file_content |-> buffer]
    ELSE LET body == LoopBody(buffer, total + BLen(chunk), chunk) IN
         IF body.raised THEN body
         ELSE ReadLoopAlone(data, position + BLen(chunk),
                            total + BLen(chunk), body.file_content)

RunAlone(u, mdl) ==
    LET loop == ReadLoopAlone(u.data, 0, 0, <<>>) IN
    IF loop.raised THEN ExceptHandler(loop.exc)
    ELSE AfterLoop(loop.file_content, u, mdl).response

(***************************************************************************)
(* Vocabulary of the properties.                                           *)
(***************************************************************************)
Done(r) == pc[r] = "done"
Response(r) == responses[r][1]
Answered(r, status) == responses[r] # <<>> /\ Response(r).status = status
Ran(r, stage) == \E i \in DOMAIN stages[r] : stages[r][i] = stage
StageOrder == <<"size", "signature", "content_type", "preprocess", "inference">>

\* the upload's own properties, stated on its bytes and declared type
WithinLimit(u) == BLen(u.data) <= MAX_FILE_SIZE
HasMagic(u) ==
    \/ startswith(u.data, <<255, 216, 255>>)
    \/ startswith(u.data, <<137, 80, 78, 71, 13, 10, 26, 10>>)
    \/ startswith(u.data, <<82, 73, 70, 70>>)
SignatureOk(u) == BLen(u.data) >= 12 /\ HasMagic(u)
TypeDeclared(u) == u.content_type.present /\ u.content_type.value # <<>>
TypeIsImage(u) ==
    /\ Len(u.content_type.value) >= 6
    /\ SubSeq(u.content_type.value, 1, 6) = <<"i", "m", "a", "g", "e", "/">>
InvalidImageResponse == [status |-> 400, detail |-> InvalidImageDetail]
TypeMismatchResponse(u) ==
    [status |-> 400, detail |-> TypeMismatchDetail(u.content_type)]
TooLargeResponse == [status |-> 413, detail |-> TooLargeDetail]
\* once the request is answered nothing of it changes again
Frozen(r) ==
    /\ pc'[r] = pc[r] /\ upload'[r] = upload[r] /\ pos'[r] = pos[r]
    /\ file_content'[r] = file_content[r] /\ total_size'[r] = total_size[r]
    /\ chunks'[r] = chunks[r] /\ stages'[r] = stages[r]
    /\ responses'[r] = responses[r]

(***************************************************************************)
(* C1.  A request is answered 413 exactly when the running total of bytes  *)
(* read exceeds MAX_FILE_SIZE: an upload of exactly MAX_FILE_SIZE bytes is *)
(* not rejected for size, a larger one is rejected at the first chunk      *)
(* whose running total crosses the limit, no chunk is read after that, and *)
(* no later stage (signature, content type, decode, inference) ever runs.  *)
(***************************************************************************)
C1_State ==
    \A r \in Requests :
        /\ Answered(r, 413) <=> total_size[r] > MAX_FILE_SIZE
        /\ Done(r) => (Answered(r, 413) <=> BLen(upload[r].data) > MAX_FILE_SIZE)
        /\ Answered(r, 413) =>
              /\ Response(r) = TooLargeResponse
              /\ chunks[r] # <<>>
              /\ total_size[r] - BLen(chunks[r][Len(chunks[r])]) <= MAX_FILE_SIZE
              /\ total_size[r] = BLen(BConcatAll(chunks[r]))
              /\ pos[r] = total_size[r]
              /\ stages[r] = <<"size">>

C1_PayloadTooLarge ==
    /\ []C1_State
    /\ [][\A r \in Requests : Answered(r, 413) => Frozen(r)]_vars

\* a 6 MiB + 5 upload is answered 413 at its sixth chunk, 5 bytes unread
C1_Witness ==
    \E r \in Requests :
        /\ Answered(r, 413)
        /\ Len(chunks[r]) = 6
        /\ total_size[r] = 6 * chunk_size
        /\ BLen(upload[r].data) = total_size[r] + 5

(***************************************************************************)
(* C2.  Every upload shorter than 12 bytes is answered with the 400        *)
(* invalid-image error, whatever its bytes (a JPEG, PNG or RIFF magic      *)
(* sequence included) and whatever content type was declared.              *)
(***************************************************************************)
C2_ShortBufferRejected ==
    \A r \in Requests :
        (Done(r) /\ BLen(upload[r].data) < 12) =>
            responses[r] = <<InvalidImageResponse>>

\* eleven bytes that begin with the PNG magic, declared image/png
C2_Witness ==
    \E r \in Requests :
        /\ Done(r)
        /\ upload[r].data = MkData(PngHead, 11)
        /\ TypeIsImage(upload[r])
        /\ responses[r] = <<InvalidImageResponse>>

(***************************************************************************)
(* C3 as stated.  Every upload of at most MAX_FILE_SIZE bytes that begins  *)
(* with a JPEG, PNG or RIFF magic sequence, with a content type that is    *)
(* absent, empty or starts with "image/", passes validation: no 413 and no *)
(* 400 is raised before preprocessing.                                     *)
(***************************************************************************)
C3_Original ==
    \A r \in Requests :
        ( /\ Done(r)
          /\ HasMagic(upload[r])
          /\ WithinLimit(upload[r])
          /\ (TypeDeclared(upload[r]) => TypeIsImage(upload[r])) ) =>
            /\ Ran(r, "preprocess")
            /\ ~Answered(r, 413) /\ ~Answered(r, 400)

(***************************************************************************)
(* C3 amended.  The same, for uploads of at least 12 bytes.                *)
(***************************************************************************)
C3_MagicAccepted ==
    \A r \in Requests :
        ( /\ Done(r)
          /\ HasMagic(upload[r])
          /\ BLen(upload[r].data) >= 12
          /\ WithinLimit(upload[r])
          /\ (TypeDeclared(upload[r]) => TypeIsImage(upload[r])) ) =>
            /\ Ran(r, "preprocess")
            /\ ~Answered(r, 413) /\ ~Answered(r, 400)

\* an upload of exactly MAX_FILE_SIZE bytes with the PNG magic reaches preprocessing
C3_Witness ==
    \E r \in Requests :
        /\ Done(r)
        /\ upload[r].data = MkData(PngHead, MAX_FILE_SIZE)
        /\ ~TypeDeclared(upload[r])
        /\ Ran(r, "preprocess")

(***************************************************************************)
(* C4.  For an upload within the size limit the answer is the 400          *)
(* type-mismatch error exactly when the bytes pass the signature check and *)
(* the declared content type is non-empty and does not start with          *)
(* "image/"; bytes that fail the signature check get the 400 invalid-image *)
(* error whatever the declared type; an absent or empty type never causes  *)
(* a rejection.                                                            *)
(***************************************************************************)
C4_ContentTypeSecondary ==
    \A r \in Requests :
        (Done(r) /\ WithinLimit(upload[r])) =>
            /\ responses[r] = <<TypeMismatchResponse(upload[r])>>
                 <=> ( /\ SignatureOk(upload[r])
                       /\ TypeDeclared(upload[r])
                       /\ ~TypeIsImage(upload[r]) )
            /\ ~SignatureOk(upload[r]) => responses[r] = <<InvalidImageResponse>>
            /\ (SignatureOk(upload[r]) /\ ~TypeDeclared(upload[r])) =>
                  /\ Ran(r, "preprocess")
                  /\ ~Answered(r, 400)

\* PNG magic declared application/pdf: the type-mismatch error
C4_Witness ==
    \E r \in Requests :
        /\ Done(r)
        /\ upload[r].data = MkData(PngHead, 13)
        /\ TypeDeclared(upload[r]) /\ ~TypeIsImage(upload[r])
        /\ responses[r] = <<TypeMismatchResponse(upload[r])>>

(***************************************************************************)
(* C5.  An upload that passes the size, signature and content-type checks  *)
(* but fails structural decode in the preprocessor is answered with HTTP   *)
(* 400, not with the generic 500.                                          *)
(***************************************************************************)
C5_DecodeErrorIs400 ==
    \A r \in Requests :
        ( /\ Done(r)
          /\ WithinLimit(upload[r])
          /\ SignatureOk(upload[r])
          /\ (TypeDeclared(upload[r]) => TypeIsImage(upload[r]))
          /\ upload[r].pil \in DecodeErrors ) =>
            Answered(r, 400)

(***************************************************************************)
(* C6.  Every request ends with exactly one response, one of 200, 400, 413 *)
(* and 500, and never a partial one.  The stages run in the order size,    *)
(* signature, content type, preprocess, inference; the first failing stage *)
(* alone determines the response (a 413 or 400 raised inside the try block *)
(* leaves it unchanged, never as a 500); no stage runs after the failing   *)
(* one and none is retried; a 200 is returned only if every stage          *)
(* succeeded.  The read loop cannot stall: a reading request can always    *)
(* resume, and it reads at most as many chunks as the upload has bytes.    *)
(***************************************************************************)
\* the first stage the upload fails at (its place in StageOrder), 0 if none
FirstFailure(u) ==
    IF ~WithinLimit(u) THEN 1
    ELSE IF ~SignatureOk(u) THEN 2
    ELSE IF TypeDeclared(u) /\ ~TypeIsImage(u) THEN 3
    ELSE IF u.pil \in DecodeErrors THEN 4
    ELSE IF u.forward # "ok" THEN 5
    ELSE 0

C6_State ==
    \A r \in Requests :
        /\ Len(responses[r]) <= 1
        /\ Done(r) <=> Len(responses[r]) = 1
        /\ Len(stages[r]) <= Len(StageOrder)
        /\ stages[r] = SubSeq(StageOrder, 1, Len(stages[r]))
        /\ Len(chunks[r]) <= pos[r] /\ pos[r] <= BLen(upload[r].data)
        /\ pc[r] = "reading" =>
              AtEOF(r) \/ \E n \in ReadSizes(r) : CanRead(r, n)
        /\ Done(r) =>
              LET k == FirstFailure(upload[r]) IN
              /\ Response(r).status \in {200, 400, 413, 500}
              /\ IF Response(r).status = 200
                 THEN /\ DOMAIN Response(r) = {"status", "body"}
                      /\ DOMAIN Response(r).body = {"prediction", "confidence"}
                 ELSE DOMAIN Response(r) = {"status", "detail"}
              /\ k # 0 => /\ stages[r] = SubSeq(StageOrder, 1, k)
                          /\ Response(r).status # 200
              /\ k = 1 => Response(r) = TooLargeResponse
              /\ k = 2 => Response(r) = InvalidImageResponse
              /\ k = 3 => Response(r) = TypeMismatchResponse(upload[r])
              /\ k \in {4, 5} => Response(r).status \in {400, 500}
              /\ k = 0 => /\ stages[r] = StageOrder
                          /\ Response(r).status = 200

C6_OneOutcome ==
    /\ []C6_State
    /\ [][\A r \in Requests : Done(r) => Frozen(r)]_vars

\* a request that failed at its third stage: two stages passed, two never ran
C6_Witness ==
    \E r \in Requests :
        /\ Done(r)
        /\ stages[r] = <<"size", "signature", "content_type">>
        /\ Len(chunks[r]) >= 2
        /\ responses[r] = <<TypeMismatchResponse(upload[r])>>

(***************************************************************************)
(* C7.  Any two requests that both end in HTTP 500 carry the same detail,  *)
(* the fixed generic message, whichever stage failed, whichever exception  *)
(* was raised and whatever the bytes and the declared content type were.   *)
(***************************************************************************)
C7_GenericInternalError ==
    \A r1, r2 \in Requests :
        (Answered(r1, 500) /\ Answered(r2, 500)) =>
            /\ Response(r1).detail = Response(r2).detail
            /\ Response(r1).detail = GenericDetail

\* a decode failure and an inference failure, on different bytes and types
C7_Witness ==
    \E r1, r2 \in Requests :
        /\ Answered(r1, 500) /\ Answered(r2, 500)
        /\ upload[r1].pil = "OSError" /\ stages[r1][Len(stages[r1])] = "preprocess"
        /\ upload[r2].forward = "RuntimeError"
        /\ stages[r2][Len(stages[r2])] = "inference"
        /\ upload[r1].data # upload[r2].data
        /\ upload[r1].content_type # upload[r2].content_type

(***************************************************************************)
(* C8.  On every HTTP 200 response the confidence is in [0, 100] (here in  *)
(* hundredths of a percent, 0..10000) and the prediction is an entry of    *)
(* the 17-entry label vocabulary.                                          *)
(***************************************************************************)
C8_PredictionInRange ==
    \A r \in Requests :
        Answered(r, 200) =>
            /\ Response(r).body.confidence \in 0..10000
            /\ \E i \in 0..16 : Response(r).body.prediction = LABELS[i + 1]

\* the last class with probability 1: confidence 100.00
C8_Witness ==
    \E r \in Requests :
        /\ Answered(r, 200)
        /\ Response(r).body.confidence = 10000
        /\ Response(r).body.prediction = LABELS[17]

(***************************************************************************)
(* C9.  The classifier is never changed by a request, and under every      *)
(* interleaving of the requests at their chunk reads each request ends     *)
(* with the response it gets when run alone on the same upload.            *)
(***************************************************************************)
C9_RequestsIndependent ==
    /\ model = load_model
    /\ \A r \in Requests :
          Done(r) => responses[r] = <<RunAlone(upload[r], load_model)>>

\* two 3 MiB uploads, each resumed while the other was mid-read, both 200
C9_Witness ==
    \E r1, r2 \in Requests :
        /\ r1 # r2
        /\ {r1, r2} \subseteq overlapped
        /\ Done(r1) /\ Done(r2)
        /\ total_size[r1] + total_size[r2] > MAX_FILE_SIZE
        /\ Answered(r1, 200) /\ Answered(r2, 200)

(***************************************************************************)
(* C10.  In every state of the read loop the buffer holds at most          *)
(* MAX_FILE_SIZE bytes (the chunk that crosses the limit is not written)   *)
(* and the running total is at most MAX_FILE_SIZE + chunk_size, for every  *)
(* upload and every split into chunks of at most chunk_size bytes; when    *)
(* the loop ends without a 413 the buffer is the concatenation of the      *)
(* chunks in read order.                                                   *)
(***************************************************************************)
C10_BufferBounded ==
    \A r \in Requests :
        /\ BLen(file_content[r]) <= MAX_FILE_SIZE
        /\ total_size[r] <= MAX_FILE_SIZE + chunk_size
        /\ \A i \in DOMAIN chunks[r] :
              BLen(chunks[r][i]) >= 1 /\ BLen(chunks[r][i]) <= chunk_size
        /\ Answered(r, 413) =>
              file_content[r] =
                  BConcatAll(SubSeq(chunks[r], 1, Len(chunks[r]) - 1))
        /\ ~Answered(r, 413) => file_content[r] = BConcatAll(chunks[r])
        /\ Ran(r, "signature") =>
              /\ file_content[r] = BConcatAll(chunks[r])
              /\ file_content[r] = upload[r].data

\* an upload of exactly MAX_FILE_SIZE bytes read in six chunks, one of them short
C10_Witness ==
    \E r \in Requests :
        /\ Ran(r, "signature")
        /\ Len(chunks[r]) = 6
        /\ short_reads[r] = 1
        /\ BLen(file_content[r]) = MAX_FILE_SIZE

=============================================================================
